---- MODULE Spec2Model ----
(***************************************************************************)
(* Model of the media timeline composition engine,                         *)
(* src/modules/video_composer/generate.py.                                 *)
(*                                                                         *)
(* Spec       : one call of compose_video, stepped through validation, the *)
(*              resolution resolver, the segment loop, the render tail and *)
(*              the finally block.  The file system and the media library  *)
(*              are the environment: what a file holds (sizes, durations)  *)
(*              is drawn when the code first reads it and recorded; a      *)
(*              library call that does I/O may raise.                      *)
(* SpecAvatar : the pure avatar scaling arithmetic on bounded sizes.       *)
(* SpecSelect : a sequence of _select_avatar_asset calls against the files *)
(*              of the avatar directory and the module-level priority      *)
(*              table.                                                     *)
(* SpecSlug   : _prepare_output_dir and _slugify on bounded titles.        *)
(* SpecPlace  : the avatar scaled and positioned in frames large enough    *)
(*              for the margins to count.                                  *)
(*                                                                         *)
(* Python's None is the empty tuple; an optional value x is <<x>> or, for  *)
(* a size, the pair <<w, h>> itself.  Durations are whole ticks; the        *)
(* transition duration, which the code compares with half a duration, is   *)
(* kept doubled, in half ticks, as every name ending in _x2.               *)
(***************************************************************************)
EXTENDS Integers, Sequences, FiniteSets, TLC

\* ---------------------------------------------------------------- bounds
MaxAudio == 2
MaxImages == 2
MaxAvatarSide == 6
MaxFrameSide == 10
MaxCalls == 2
MaxIndex == 3
MaxTitle == 4
MaxZoom == 2
MaxPlaceSide == 26

\* ------------------------------------------------------- Python values
None == <<>>

\* An exception is <<type, what raised it>>; no exception is None.
NoError == <<>>

Min2(a, b) == IF a <= b THEN a ELSE b

Max2(a, b) == IF a >= b THEN a ELSE b

\* Truthiness of an optional number: None and 0 are falsy.
TruthyNum(d) == d # None /\ d[1] # 0

\* Python's `a or b` on optional numbers.
OrNum(a, b) == IF TruthyNum(a) THEN a ELSE b

\* --------------------------------------------------------- input domains
AudioPool == [i \in 1..MaxAudio |-> <<"audio", i>>]

ImagePool == [i \in 1..MaxImages |-> <<"image", i>>]

ShortPath == <<"short", 0>>

Prefixes(pool) == {SubSeq(pool, 1, n) : n \in 0..Len(pool)}

Range(s) == {s[i] : i \in 1..Len(s)}

\* The durations a media file may report, in ticks: undefined, zero, one
\* tick and two.
Durations == {None, <<0>>, <<1>>, <<2>>}

\* Transition durations, in half ticks: negative, zero, half a tick and a
\* whole tick.
TransitionDurations == {0 - 1, 0, 1, 2}

\* Frame sizes the files of a composition run may hold: one with a zero
\* dimension and two distinct proper ones.
FrameSizes == {<<0, 2>>, <<2, 1>>, <<1, 2>>}

\* The resolution argument: absent, with a zero dimension, or proper.
Resolutions == {None, <<0, 2>>, <<2, 1>>}

\* The short_video_index argument: before, inside and past the segments.  It
\* is read only when a short clip is given (line 296), so it keeps its
\* default without one.
ShortVideoIndexes(short) == IF short = None THEN {1} ELSE (0 - 1)..MaxAudio

\* ------------------------------------------------------------- variables
VARIABLES
    \* compose_video's arguments
    audio_paths, image_paths, short_video_path, video_id, resolution,
    transition_duration_x2, short_video_index,
    \* the environment: paths that do not exist, what the files read so far
    \* turned out to hold, and the files the resolver could not open
    missing, short_size, image_size, probe_failures,
    \* compose_video's position and locals
    pc, raised, base_resolution, clip_pairs, short_video_clip,
    final_clip, bg_music_base, bg_music, composite_audio,
    \* history: existence queries, output directory, media handles opened
    \* and closed, sources the resolver opened, avatar placements, the
    \* segment whose build raised
    fs_queried, output_dir_created, opened, closed, consulted, avatar_log,
    failed_segment,
    \* history: the error the failing step raised, the handles whose close()
    \* raised in the finally block, the library calls made in order, and what
    \* the render tail computed (the concatenated clip's duration, the
    \* background track, the audio given to the final clip)
    thrown, close_errors, calls, final_duration, background, final_audio,
    \* SpecSelect: the module-level AVATAR_PRIORITY table and the files of
    \* AVATAR_DIR; SpecSelect and SpecSlug: the arguments and the outcome of
    \* the last call
    avatar_priority, avatar_dir, fn_args, fn_result,
    \* SpecAvatar: the sizes given to _scale_avatar_image and its result
    avatar_in, frame_in, avatar_out

args == <<audio_paths, image_paths, short_video_path, video_id, resolution,
          transition_duration_x2, short_video_index>>

env == <<missing, short_size, image_size, probe_failures>>

locals == <<pc, raised, base_resolution, clip_pairs,
            short_video_clip, final_clip, bg_music_base, bg_music,
            composite_audio>>

history == <<fs_queried, output_dir_created, opened, closed, consulted,
             avatar_log, failed_segment>>

render_log == <<thrown, close_errors, calls, final_duration, background,
                final_audio>>

pure == <<avatar_in, frame_in, avatar_out, avatar_priority, avatar_dir,
          fn_args, fn_result>>

vars == <<args, env, locals, history, render_log, pure>>

\* ------------------------------------------------------------ validation
\* _ensure_paths: [raised, queried]; the emptiness test comes first, then
\* every path of the list is tested for existence.
_ensure_paths(paths, label) ==
    IF paths = <<>>
    THEN [raised |-> <<"ValueError", label>>, queried |-> {}]
    ELSE IF Range(paths) \cap missing # {}
         THEN [raised |-> <<"FileNotFoundError", label>>, queried |-> Range(paths)]
         ELSE [raised |-> NoError, queried |-> Range(paths)]

\* Mutant of _check_short_video: the existence test of lines 266-269 left out.
_check_short_video_absent == [raised |-> NoError, queried |-> {}]

\* Lines 265-269: the short clip, when one is declared, must exist.
_check_short_video ==
    IF short_video_path = None
    THEN [raised |-> NoError, queried |-> {}]
    ELSE IF short_video_path[1] \in missing
         THEN [raised |-> <<"FileNotFoundError", "short video">>,
               queried |-> {short_video_path[1]}]
         ELSE [raised |-> NoError, queried |-> {short_video_path[1]}]

\* Mutant of _prepare_output_dir: the directory is made before video_id is
\* looked at.
_prepare_output_dir_mkdir_first ==
    IF video_id = ""
    THEN [raised |-> <<"ValueError", "video_id">>, created |-> TRUE]
    ELSE [raised |-> NoError, created |-> TRUE]

\* _prepare_output_dir: [raised, created].
_prepare_output_dir ==
    IF video_id = ""
    THEN [raised |-> <<"ValueError", "video_id">>, created |-> FALSE]
    ELSE [raised |-> NoError, created |-> TRUE]

\* Mutant of validation: the image paths are checked before the audio paths.
validation_images_first ==
    LET a == _ensure_paths(audio_paths, "audio")
        i == _ensure_paths(image_paths, "image")
    IN  IF i.raised # NoError
        THEN [raised |-> i.raised, queried |-> i.queried, created |-> FALSE]
        ELSE [raised |-> a.raised, queried |-> a.queried \cup i.queried,
              created |-> FALSE]

\* Lines 263-271 in order; the first check that raises ends the call.
validation ==
    LET a == _ensure_paths(audio_paths, "audio")
        i == _ensure_paths(image_paths, "image")
        s == _check_short_video
        o == _prepare_output_dir
    IN  IF a.raised # NoError
        THEN [raised |-> a.raised, queried |-> a.queried, created |-> FALSE]
        ELSE IF i.raised # NoError
        THEN [raised |-> i.raised, queried |-> a.queried \cup i.queried,
              created |-> FALSE]
        ELSE IF s.raised # NoError
        THEN [raised |-> s.raised,
              queried |-> a.queried \cup i.queried \cup s.queried,
              created |-> FALSE]
        ELSE [raised |-> o.raised,
              queried |-> a.queried \cup i.queried \cup s.queried,
              created |-> o.created]

Validate ==
    /\ pc = "validate"
    /\ LET v == validation
       IN  /\ raised' = v.raised
           /\ thrown' = v.raised
           /\ fs_queried' = v.queried
           /\ output_dir_created' = v.created
           /\ pc' = IF v.raised # NoError THEN "done" ELSE "resolve"
    /\ UNCHANGED <<args, env, pure, base_resolution, clip_pairs,
                   short_video_clip, final_clip, bg_music_base, bg_music,
                   composite_audio, opened, closed, consulted, avatar_log,
                   failed_segment, close_errors, calls, final_duration,
                   background, final_audio>>

\* ------------------------------------------------------ resolution resolver
\* A size counts when both of its dimensions are non-zero.
ProperSize(size) == size[1] # 0 /\ size[2] # 0

\* Mutant of _scan_images: an image that cannot be opened is skipped.
RECURSIVE _scan_images_skipping(_, _, _, _, _)
_scan_images_skipping(k, paths, sizes, unreadable, seen) ==
    LET skipped == {paths[j] : j \in 1..Min2(k, Len(paths))} \cap unreadable
    IN  IF k > Len(paths)
        THEN [raised |-> NoError, value |-> None, consulted |-> seen,
              failed |-> Range(paths) \cap unreadable]
        ELSE IF paths[k] \in unreadable
        THEN _scan_images_skipping(k + 1, paths, sizes, unreadable, seen)
        ELSE IF ProperSize(sizes[k])
        THEN [raised |-> NoError, value |-> sizes[k],
              consulted |-> Append(seen, paths[k]), failed |-> skipped]
        ELSE _scan_images_skipping(k + 1, paths, sizes, unreadable,
                                   Append(seen, paths[k]))

\* Lines 218-224 from image k on: the first image whose size is proper gives
\* the result; an image that cannot be opened raises (failed names it).
RECURSIVE _scan_images(_, _, _, _, _)
_scan_images(k, paths, sizes, unreadable, seen) ==
    IF k > Len(paths)
    THEN [raised |-> NoError, value |-> None, consulted |-> seen,
          failed |-> {}]
    ELSE IF paths[k] \in unreadable
    THEN [raised |-> <<"OSError", "resolver Image.open">>, value |-> None,
          consulted |-> seen, failed |-> {paths[k]}]
    ELSE IF ProperSize(sizes[k])
    THEN [raised |-> NoError, value |-> sizes[k],
          consulted |-> Append(seen, paths[k]), failed |-> {}]
    ELSE _scan_images(k + 1, paths, sizes, unreadable, Append(seen, paths[k]))

\* Mutant of _determine_base_resolution: the images are consulted before the
\* short clip.
_determine_base_resolution_images_first(res, short, paths, ssize, sizes, unreadable) ==
    LET i == _scan_images(1, paths, sizes, unreadable, <<>>)
    IN  IF res # None
        THEN [raised |-> NoError, value |-> res, consulted |-> <<>>,
              failed |-> {}]
        ELSE IF i.value # None \/ short = None
        THEN i
        ELSE [raised |-> i.raised,
              value |-> IF ProperSize(ssize) THEN ssize ELSE None,
              consulted |-> Append(i.consulted, short[1]),
              failed |-> i.failed]

\* _determine_base_resolution: [raised, value, consulted, failed], consulted
\* being the files it opened, in order, and failed the files whose open
\* raised.  ssize and sizes are what the short clip and the images hold;
\* unreadable are the files that cannot be opened.
_determine_base_resolution(res, short, paths, ssize, sizes, unreadable) ==
    IF res # None
    THEN [raised |-> NoError, value |-> res, consulted |-> <<>>, failed |-> {}]
    ELSE IF short # None /\ short[1] \in unreadable
    THEN [raised |-> <<"OSError", "resolver VideoFileClip">>, value |-> None,
          consulted |-> <<>>, failed |-> {short[1]}]
    ELSE IF short # None /\ ProperSize(ssize)
    THEN [raised |-> NoError, value |-> ssize, consulted |-> <<short[1]>>,
          failed |-> {}]
    ELSE _scan_images(1, paths, sizes, unreadable,
                      IF short # None THEN <<short[1]>> ELSE <<>>)

\* What the resolver may find in the files: nothing is read when the
\* resolution is given, and the short clip only when there is one.
ShortSizesFound == IF resolution = None /\ short_video_path # None
                   THEN FrameSizes ELSE {<<0, 2>>}

ImageSizesFound == IF resolution = None
                   THEN [1..MaxImages -> FrameSizes]
                   ELSE {[i \in 1..MaxImages |-> <<0, 2>>]}

UnreadableFound == IF resolution = None
                   THEN SUBSET (Range(image_paths) \cup Range(short_video_path))
                   ELSE {{}}

\* Lines 273-277.  The call is outside the try block: an error leaves
\* compose_video at once; the resolver's own handles are scoped (with).
Resolve ==
    /\ pc = "resolve"
    /\ \E ssize \in ShortSizesFound, sizes \in ImageSizesFound,
          unreadable \in UnreadableFound :
        LET r == _determine_base_resolution(resolution, short_video_path,
                     image_paths, ssize, sizes, unreadable)
            read == Range(r.consulted)
        IN  /\ raised' = r.raised
            /\ thrown' = r.raised
            /\ base_resolution' = r.value
            /\ consulted' = r.consulted
            /\ probe_failures' = r.failed
            /\ short_size' = IF ShortPath \in read THEN ssize ELSE None
            /\ image_size' = [i \in 1..MaxImages |->
                                 IF ImagePool[i] \in read THEN sizes[i] ELSE None]
            /\ opened' = opened \cup {<<"probe", p>> : p \in read}
            /\ closed' = closed \cup {<<"probe", p>> : p \in read}
            /\ pc' = IF r.raised # NoError THEN "done" ELSE "open_short"
    /\ calls' = Append(calls, <<"_determine_base_resolution", 0>>)
    /\ UNCHANGED <<args, pure, missing, clip_pairs,
                   short_video_clip, final_clip, bg_music_base, bg_music,
                   composite_audio, fs_queried, output_dir_created, avatar_log,
                   failed_segment, close_errors, final_duration,
                   background, final_audio>>

\* ----------------------------------------------------------- the try block
\* Mutant of _cleanup: the loop closes each pair's clip and not its audio.
_cleanup_clips_only(pairs, final, mix, music, base, short) ==
    {<<"visual_clip", pairs[i].index>> : i \in 1..Len(pairs)}
    \cup ({final, mix, music, base, short} \ {None})

\* The finally block, lines 365-399: the handles close() is called on, given
\* the locals the try block left.
_cleanup(pairs, final, mix, music, base, short) ==
    UNION {{<<"visual_clip", pairs[i].index>>,
            <<"audio_clip", pairs[i].index>>} : i \in 1..Len(pairs)}
    \cup (IF final # None THEN {final} ELSE {})
    \cup (IF mix # None THEN {mix} ELSE {})
    \cup (IF music # None THEN {music} ELSE {})
    \cup (IF base # None THEN {base} ELSE {})
    \cup (IF short # None THEN {short} ELSE {})

\* Mutant of _attempted: the first close() that raises ends the cleanup.
_attempted_until_error(cleanup, close_raises) ==
    IF close_raises /\ cleanup # {}
    THEN {CHOOSE h \in cleanup : TRUE}
    ELSE cleanup

\* Lines 366-399: the handles close() is called on, out of those the finally
\* block is to close; a close() that raises is passed over (except
\* Exception: pass) and the next one is still made.
_attempted(cleanup, close_raises) == cleanup

\* Mutant of _propagate: an error raised by a close() leaves the finally
\* block in place of the error in flight.
_propagate_close_error(error, failed) ==
    IF failed # {} THEN <<"OSError", "close">> ELSE error

\* Lines 367-399: each close() sits in its own try / except Exception: pass,
\* so what leaves the finally block is the error in flight (none on the
\* success path), whatever handles' close() raised.
_propagate(error, failed) == error

\* Leaving the try block: the finally block runs on the locals as they are
\* then, and compose_video returns output_path or the error propagates.
\* closed holds the handles close() is called on; the library's close() may
\* raise, and then does so on every handle.
Finally ==
    \E close_raises \in BOOLEAN :
        LET attempted == _attempted(_cleanup(clip_pairs', final_clip',
                                             composite_audio', bg_music',
                                             bg_music_base', short_video_clip'),
                                    close_raises)
        IN  /\ closed' = closed \cup attempted
            /\ close_errors' = IF close_raises THEN attempted ELSE {}
            /\ raised' = _propagate(thrown', close_errors')

\* The try block goes on: nothing is closed and nothing is raised.
StayInTry == UNCHANGED <<closed, close_errors, raised>>

\* Lines 287-288.
OpenShort ==
    /\ pc = "open_short"
    /\ IF short_video_path = None
       THEN /\ pc' = "loop"
            /\ UNCHANGED <<thrown, short_video_clip, opened, calls>>
       ELSE \E ok \in BOOLEAN :
            /\ calls' = Append(calls, <<"VideoFileClip", 0>>)
            /\ IF ok
               THEN /\ short_video_clip' = <<"short_video_clip", 0>>
                    /\ opened' = opened \cup {<<"short_video_clip", 0>>}
                    /\ pc' = "loop"
                    /\ UNCHANGED thrown
               ELSE /\ thrown' = <<"OSError", "VideoFileClip">>
                    /\ pc' = "done"
                    /\ UNCHANGED <<short_video_clip, opened>>
    /\ UNCHANGED <<args, env, pure, base_resolution, clip_pairs,
                   final_clip, bg_music_base, bg_music, composite_audio,
                   fs_queried, output_dir_created, consulted,
                   avatar_log, failed_segment, final_duration, background,
                   final_audio>>
    /\ IF pc' = "done" THEN Finally ELSE StayInTry

\* Mutant of _use_short_video: an index before the first segment falls on the
\* first segment.
_use_short_video_clamped(clip, index, k) == clip # None /\ index = Max2(0, k)

\* Lines 295-297.
_use_short_video(clip, index, k) == clip # None /\ index = k

\* Mutant of _pair_media: the pairs in reverse order.
_pair_media_reversed(audios, images) ==
    [i \in 1..Len(audios) |->
        <<audios[Len(audios) - i + 1],
          images[Min2(Len(audios) - i + 1, Len(images))]>>]

\* Mutant of _pair_media: zip in place of zip_longest.
_pair_media_shortest(audios, images) ==
    [i \in 1..Min2(Len(audios), Len(images)) |-> <<audios[i], images[i]>>]

\* _pair_media.  zip_longest pads the shorter list with None; the loop stops
\* at the first padded audio and a padded image becomes the last image.
_pair_media(audios, images) ==
    LET longest == Max2(Len(audios), Len(images))
        zipped == [i \in 1..longest |->
                      <<IF i <= Len(audios) THEN <<audios[i]>> ELSE None,
                        IF i <= Len(images) THEN <<images[i]>> ELSE None>>]
        last_image == images[Len(images)]
        stop == IF \E i \in 1..longest : zipped[i][1] = None
                THEN (CHOOSE i \in 1..longest :
                         /\ zipped[i][1] = None
                         /\ \A j \in 1..(i - 1) : zipped[j][1] # None) - 1
                ELSE longest
    IN  [i \in 1..stop |->
            <<zipped[i][1][1],
              IF zipped[i][2] # None THEN zipped[i][2][1] ELSE last_image>>]

\* Mutant of _avatar_side_for_index: the parity test inverted.
_avatar_side_for_index_inverted(index) == IF index % 2 = 0 THEN "right" ELSE "left"

_avatar_side_for_index(index) == IF index % 2 = 0 THEN "left" ELSE "right"

\* Lines 143-144 and 171-172: whether ImageOps.mirror is applied.
_mirror_avatar(side) == side = "left"

\* Mutant of _effective_transition_x2: the cap at half the duration left out.
_effective_transition_x2_uncapped(transition_x2, duration) ==
    IF TruthyNum(duration) /\ transition_x2 # 0 THEN transition_x2 ELSE 0

\* Lines 330-334, in half ticks: min(T, D / 2) when both D and T are truthy,
\* else 0.
_effective_transition_x2(transition_x2, duration) ==
    IF TruthyNum(duration) /\ transition_x2 # 0
    THEN Min2(transition_x2, duration[1])
    ELSE 0

\* Mutant of _apply_transitions: only a zero duration returns the clip as it
\* is.
_apply_transitions_nonzero(effective_x2) == effective_x2 # 0

\* _apply_transitions: whether fadein and fadeout are applied.
_apply_transitions(effective_x2) == effective_x2 > 0

\* Mutant of _segment_size: the base resolution applied with width and height
\* exchanged.
_segment_size_swapped(base, own) ==
    IF base # None THEN <<base[2], base[1]>> ELSE own

\* Lines 139-140 and 304-305: the frame size of a segment's visual, own being
\* the size the image or the short clip holds.
_segment_size(base, own) == IF base # None THEN base ELSE own

\* Mutant of _short_clip_duration: the clip is neither looped nor trimmed.
_short_clip_duration_native(duration, native) == native

\* Lines 299-303: the duration of the short clip once looped and trimmed to
\* the target; a falsy target leaves the clip as it is.
_short_clip_duration(duration, native) ==
    LET target_duration == OrNum(duration, native)
    IN  IF TruthyNum(target_duration) THEN target_duration ELSE native

\* Lines 324-326: ImageClip(...).set_duration(audio_clip.duration).
_image_clip_duration(duration) == duration

\* One iteration of the loop, lines 293-337, as [raised, opened, placements,
\* calls, segment].  duration is what the AudioFileClip reports, native the
\* short clip's own duration; failure is the call that raises for what it
\* finds on disk, if any: "audio" for AudioFileClip, "avatar" for
\* _select_avatar_asset (no png in AVATAR_DIR), "visual" for an Image.open.
\* A segment's fx are the effects applied to its visual clip, in order.
_build_segment(index, pair, use_short_video, duration, native, failure) ==
    LET audio_clip == <<"audio_clip", index>>
        visual_clip == <<"visual_clip", index>>
        side == _avatar_side_for_index(index)
        placement(path) == [index |-> index, side |-> side,
                            mirrored |-> _mirror_avatar(side), path |-> path]
        effective == _effective_transition_x2(transition_duration_x2, duration)
        fades == _apply_transitions(effective)
        opening == <<<<"AudioFileClip", index>>>>
        fail(error, handles, placed, made) ==
            [raised |-> error, opened |-> handles, placements |-> placed,
             calls |-> made, segment |-> None]
        built(source, visual_duration, size, placed, made, fx) ==
            [raised |-> NoError, opened |-> {audio_clip, visual_clip},
             placements |-> placed,
             calls |-> made \o <<<<"_apply_transitions", index>>>>,
             segment |-> <<[index |-> index, audio |-> pair[1],
                            image |-> pair[2], source |-> source,
                            audio_duration |-> duration,
                            visual_duration |-> visual_duration,
                            size |-> size,
                            effective_transition_x2 |-> effective,
                            fades |-> fades,
                            fx |-> fx \o (IF fades
                                          THEN <<"fadein", "fadeout">>
                                          ELSE <<>>)]>>]
    IN  IF failure = "audio"
        THEN fail(<<"OSError", "AudioFileClip">>, {}, <<>>, opening)
        ELSE IF use_short_video
        THEN LET visual_duration == _short_clip_duration(duration, native)
                 size == _segment_size(base_resolution, short_size)
                 overlay == opening \o <<<<"_build_avatar_overlay", index>>>>
                 fx == (IF TruthyNum(OrNum(duration, native))
                        THEN <<"loop", "subclip">> ELSE <<>>)
                       \o (IF base_resolution # None
                           THEN <<"resize">> ELSE <<>>)
             IN  IF ~ProperSize(size)
                 THEN built("short", visual_duration, size, <<>>, overlay, fx)
                 ELSE IF failure = "avatar"
                 THEN fail(<<"FileNotFoundError", "avatar">>, {audio_clip},
                           <<>>, overlay)
                 ELSE IF failure = "visual"
                 THEN fail(<<"OSError", "Image.open">>, {audio_clip}, <<>>,
                           overlay)
                 \* line 314: CompositeVideoClip is not imported
                 ELSE fail(<<"NameError", "CompositeVideoClip">>, {audio_clip},
                           <<placement("overlay")>>, overlay)
        ELSE LET frame == opening \o <<<<"_render_frame_with_avatar", index>>>>
             IN  IF failure = "avatar"
                 THEN fail(<<"FileNotFoundError", "avatar">>, {audio_clip},
                           <<>>, frame)
                 ELSE IF failure = "visual"
                 THEN fail(<<"OSError", "Image.open">>, {audio_clip}, <<>>,
                           frame)
                 ELSE built("image", _image_clip_duration(duration),
                            _segment_size(base_resolution,
                                          image_size[pair[2][2]]),
                            <<placement("static")>>,
                            frame \o <<<<"ImageClip", index>>>>, <<>>)

BuildSegment ==
    /\ pc = "loop"
    /\ Len(clip_pairs) < Len(_pair_media(audio_paths, image_paths))
    /\ LET index == Len(clip_pairs)
           pair == _pair_media(audio_paths, image_paths)[index + 1]
           use_short_video == _use_short_video(short_video_clip, index,
                                               short_video_index)
       IN  \E duration \in Durations,
              native \in (IF use_short_video THEN Durations ELSE {None}),
              failure \in {"none", "audio", "avatar", "visual"} :
        LET b == _build_segment(index, pair, use_short_video, duration,
                                native, failure)
        IN  /\ thrown' = b.raised
            /\ opened' = opened \cup b.opened
            /\ avatar_log' = avatar_log \o b.placements
            /\ calls' = calls \o b.calls
            /\ clip_pairs' = clip_pairs \o b.segment
            /\ failed_segment' = IF b.raised # NoError THEN <<index>> ELSE None
            /\ pc' = IF b.raised # NoError THEN "done" ELSE "loop"
    /\ UNCHANGED <<args, env, pure, base_resolution, short_video_clip,
                   final_clip, bg_music_base, bg_music, composite_audio,
                   fs_queried, output_dir_created, consulted, final_duration,
                   background, final_audio>>
    /\ IF pc' = "done" THEN Finally ELSE StayInTry

\* ----------------------------------------------------------- render tail
\* The durations AudioFileClip(BG_MUSIC) may report: an empty track, one
\* shorter and one longer than a narration.
BgDurations == {<<0>>, <<1>>, <<2>>}

RECURSIVE SumDurations(_)
SumDurations(pairs) ==
    IF pairs = <<>> THEN 0
    ELSE pairs[1].visual_duration[1] + SumDurations(Tail(pairs))

\* Lines 342-344: concatenate_videoclips adds up the clips' durations, and
\* cannot when one of them is None.
_concatenate(pairs) ==
    IF \E i \in 1..Len(pairs) : pairs[i].visual_duration = None
    THEN [raised |-> <<"TypeError", "concatenate_videoclips">>, duration |-> None]
    ELSE [raised |-> NoError, duration |-> <<SumDurations(pairs)>>]

\* Line 350: the concatenated clip carries the audio of the clips that have
\* one (line 328 gives every segment its audio clip).
_narration_audio(pairs) == \E i \in 1..Len(pairs) : pairs[i].audio # None

\* Mutant of _background_target: the track's own duration comes first.
_background_target_native(duration, native) ==
    OrNum(native, OrNum(duration, <<0>>))

\* Line 347: final_clip.duration or bg_music_base.duration or 0.
_background_target(duration, native) ==
    OrNum(duration, OrNum(native, <<0>>))

\* Line 348: audio_loop repeats the track int(target / native) + 1 times and
\* sets the duration to the target, then volumex(0.5) scales the volume.
_audio_loop(native, target) ==
    IF native[1] = 0
    THEN [raised |-> <<"ZeroDivisionError", "audio_loop">>, track |-> None]
    ELSE [raised |-> NoError,
          track |-> [native |-> native,
                     loops |-> (target[1] \div native[1]) + 1,
                     duration |-> target,
                     ops |-> <<"audio_loop", "volumex">>]]

\* Mutant of _composite_audio: the two branches exchanged.
_composite_audio_swapped(narration, music) ==
    IF narration
    THEN [handle |-> music, narration |-> narration, sources |-> {"background"}]
    ELSE [handle |-> <<"composite_audio", 0>>, narration |-> narration,
          sources |-> {"narration", "background"}]

\* Lines 351-355: CompositeAudioClip([narration_audio, bg_music]) when there
\* is narration, else bg_music itself.
_composite_audio(narration, music) ==
    IF narration
    THEN [handle |-> <<"composite_audio", 0>>, narration |-> narration,
          sources |-> {"narration", "background"}]
    ELSE [handle |-> music, narration |-> narration, sources |-> {"background"}]

\* Lines 339-364 as the locals they leave; failure is the call that raises
\* for a reason of its own, native the duration of the background file
\* (none while the file is not open).
_render(failure, native) ==
    LET final == <<"final_clip", 0>>
        base == <<"bg_music_base", 0>>
        music == <<"bg_music", 0>>
        joined == _concatenate(clip_pairs)
        target == _background_target(joined.duration, native)
        looped == _audio_loop(native, target)
        mix == _composite_audio(_narration_audio(clip_pairs), music)
        joining == <<<<"concatenate_videoclips", 0>>>>
        loading == joining \o <<<<"AudioFileClip", 0 - 1>>>>
        looping == loading \o <<<<"audio_loop", 0>>>>
        writing == looping \o <<<<"write_videofile", 0>>>>
        r(error, f, b, m, c, made, d, track, audio) ==
            [raised |-> error, final_clip |-> f, bg_music_base |-> b,
             bg_music |-> m, composite_audio |-> c, calls |-> made,
             final_duration |-> d, background |-> track,
             final_audio |-> audio]
        e(what) == <<"OSError", what>>
    IN  IF clip_pairs = <<>>
        THEN r(<<"ValueError", "segments">>, None, None, None, None, <<>>,
               None, None, None)
        ELSE IF failure = "concatenate"
        THEN r(e("concatenate_videoclips"), None, None, None, None, joining,
               None, None, None)
        ELSE IF joined.raised # NoError
        THEN r(joined.raised, None, None, None, None, joining,
               None, None, None)
        ELSE IF failure = "bg_open"
        THEN r(e("AudioFileClip"), final, None, None, None, loading,
               joined.duration, None, None)
        ELSE IF looped.raised # NoError
        THEN r(looped.raised, final, base, None, None, looping,
               joined.duration, None, None)
        ELSE IF failure = "write"
        THEN r(e("write_videofile"), final, base, music, mix.handle, writing,
               joined.duration, looped.track, mix)
        ELSE r(NoError, final, base, music, mix.handle, writing,
               joined.duration, looped.track, mix)

Render ==
    /\ pc = "loop"
    /\ Len(clip_pairs) = Len(_pair_media(audio_paths, image_paths))
    /\ \E failure \in {"none", "concatenate", "bg_open", "write"} :
       \E native \in (IF failure \in {"concatenate", "bg_open"}
                      THEN {None} ELSE BgDurations) :
        LET r == _render(failure, native)
        IN  /\ thrown' = r.raised
            /\ final_clip' = r.final_clip
            /\ bg_music_base' = r.bg_music_base
            /\ bg_music' = r.bg_music
            /\ composite_audio' = r.composite_audio
            /\ calls' = calls \o r.calls
            /\ final_duration' = r.final_duration
            /\ background' = r.background
            /\ final_audio' = r.final_audio
            /\ opened' = opened \cup ({r.final_clip, r.bg_music_base, r.bg_music,
                                        r.composite_audio} \ {None})
    /\ pc' = "done"
    /\ UNCHANGED <<args, env, pure, base_resolution, clip_pairs,
                   short_video_clip, fs_queried, output_dir_created,
                   consulted, avatar_log, failed_segment>>
    /\ Finally

\* ------------------------------------------------------- avatar placement
\* The smaller of two fractions <<numerator, denominator>>, denominators
\* positive; on a tie the first, as Python's min.
MinFraction(a, b) == IF b[1] * a[2] < a[1] * b[2] THEN b ELSE a

\* Mutant of _scale_factor: the cap at 1 left out.
_scale_factor_uncapped(avatar, base_size) ==
    MinFraction(IF avatar[1] # 0
                THEN <<28 * base_size[1], 100 * avatar[1]>> ELSE <<1, 1>>,
                IF avatar[2] # 0
                THEN <<80 * base_size[2], 100 * avatar[2]>> ELSE <<1, 1>>)

\* Lines 102-106: min(0.28 * W / w, 0.8 * H / h, 1) as an exact fraction,
\* a factor being 1 when the avatar's dimension is 0.
_scale_factor(avatar, base_size) ==
    LET width_factor == IF avatar[1] # 0
                        THEN <<28 * base_size[1], 100 * avatar[1]>>
                        ELSE <<1, 1>>
        height_factor == IF avatar[2] # 0
                         THEN <<80 * base_size[2], 100 * avatar[2]>>
                         ELSE <<1, 1>>
    IN  MinFraction(MinFraction(width_factor, height_factor), <<1, 1>>)

\* _scale_avatar_image: the size of the image returned, int() truncating.
_scale_avatar_image(avatar, base_size) ==
    IF base_size[1] = 0 \/ base_size[2] = 0
    THEN avatar
    ELSE LET scale_factor == _scale_factor(avatar, base_size)
         IN  <<Max2(1, (avatar[1] * scale_factor[1]) \div scale_factor[2]),
               Max2(1, (avatar[2] * scale_factor[1]) \div scale_factor[2])>>

AvatarSizes == (0..MaxAvatarSide) \X (0..MaxAvatarSide)

BaseSizes == (0..MaxFrameSide) \X (0..MaxFrameSide)

ScaleAvatar ==
    /\ pc = "scale"
    /\ avatar_out' = [size |-> _scale_avatar_image(avatar_in, frame_in),
                      scale_factor |-> IF frame_in[1] = 0 \/ frame_in[2] = 0
                                       THEN None
                                       ELSE _scale_factor(avatar_in, frame_in)]
    /\ pc' = "scaled"
    /\ UNCHANGED <<args, env, history, render_log, raised, base_resolution,
                   clip_pairs, short_video_clip, final_clip, bg_music_base,
                   bg_music, composite_audio, avatar_in, frame_in,
                   avatar_priority, avatar_dir, fn_args, fn_result>>

\* Mutant of _position_avatar_image: the two sides exchanged.
_position_avatar_image_swapped(avatar_size, base_size, side) ==
    LET margin_x == (base_size[1] * 4) \div 100
        margin_y == (base_size[2] * 5) \div 100
    IN  <<IF side = "right" THEN margin_x
          ELSE base_size[1] - avatar_size[1] - margin_x,
          base_size[2] - avatar_size[2] - margin_y>>

\* Mutant of _position_avatar_image: the right margin added, not taken off.
_position_avatar_image_outward(avatar_size, base_size, side) ==
    LET margin_x == (base_size[1] * 4) \div 100
        margin_y == (base_size[2] * 5) \div 100
    IN  <<IF side = "left" THEN margin_x
          ELSE base_size[1] - avatar_size[1] + margin_x,
          base_size[2] - avatar_size[2] - margin_y>>

\* _position_avatar_image: <<x, y>>; int() of a non-negative product
\* truncates, as the integer division does.
_position_avatar_image(avatar_size, base_size, side) ==
    LET margin_x == (base_size[1] * 4) \div 100
        margin_y == (base_size[2] * 5) \div 100
    IN  <<IF side = "left" THEN margin_x
          ELSE base_size[1] - avatar_size[1] - margin_x,
          base_size[2] - avatar_size[2] - margin_y>>

PlaceSizes == (0..MaxPlaceSide) \X (0..MaxPlaceSide)

\* Lines 146-149 and 174-175: the avatar is scaled to the frame and the
\* scaled image is positioned.
PlaceAvatar ==
    /\ pc = "place"
    /\ LET scaled == _scale_avatar_image(avatar_in, frame_in)
       IN  fn_result' = [size |-> scaled,
                         position |-> _position_avatar_image(scaled, frame_in,
                                                             fn_args.side)]
    /\ pc' = "placed"
    /\ UNCHANGED <<args, env, history, render_log, raised, base_resolution,
                   clip_pairs, short_video_clip, final_clip, bg_music_base,
                   bg_music, composite_audio, avatar_in, frame_in, avatar_out,
                   avatar_priority, avatar_dir, fn_args>>

\* -------------------------------------------------------- avatar selection
\* Text is a sequence of characters; str.lower() maps the capitals.
LowerChar(c) ==
    CASE c = "H" -> "h"
      [] c = "O" -> "o"
      [] c = "K" -> "k"
      [] c = "I" -> "i"
      [] c = "B" -> "b"
      [] OTHER -> c

Lower(text) == [i \in 1..Len(text) |-> LowerChar(text[i])]

\* Python's `needle in text` on strings.
Contains(text, needle) ==
    \E k \in 0..(Len(text) - Len(needle)) :
        SubSeq(text, k + 1, k + Len(needle)) = needle

\* A file of AVATAR_DIR is <<stem, suffix>>.
CASUAL_AVATAR_SEQUENCE ==
    <<(<<"casual_1", "png">>), (<<"casual_2", "png">>), (<<"casual_3", "png">>)>>

\* The keys of AVATAR_PRIORITY in the order the dict lists them.
PriorityKeys == <<(<<"h", "o", "o", "k">>), (<<"i", "n", "t", "r", "o">>),
                  (<<"o", "u", "t", "r", "o">>)>>

\* AVATAR_PRIORITY as the module defines it, by position of the key.
AVATAR_PRIORITY ==
    <<(<<(<<"pointing_1", "png">>)>>),
      (<<(<<"casual_1", "png">>), (<<"waving_1", "png">>)>>),
      (<<(<<"waving_1", "png">>), (<<"casual_2", "png">>)>>)>>

\* The files AVATAR_DIR may hold, in the order sorted() gives paths: the six
\* assets the module names, one more png before them and a file that is not
\* a png.
SortedAvatarFiles ==
    <<(<<"aaa", "png">>), (<<"casual_1", "png">>), (<<"casual_2", "png">>),
      (<<"casual_3", "png">>), (<<"notes", "txt">>), (<<"pointing_1", "png">>),
      (<<"waving_1", "png">>)>>

RankOf(file) == CHOOSE k \in 1..Len(SortedAvatarFiles) : SortedAvatarFiles[k] = file

\* Line 72: sorted(AVATAR_DIR.glob("*.png")), as the set of matches and its
\* first element.
GlobPng(files) == {f \in files : f[2] = "png"}

FirstSorted(files) == CHOOSE f \in files : \A g \in files : RankOf(f) <= RankOf(g)

\* Section labels given to _select_avatar_asset.
SectionNames ==
    {<<"H", "O", "O", "K">>,
     <<"1", "_", "I", "n", "t", "r", "o">>,
     <<"o", "u", "t", "r", "o">>,
     <<"o", "u", "t", "r", "o", "_", "h", "o", "o", "k">>,
     <<"s", "c", "e", "n", "e">>}

\* Mutant of _resolve_avatar_path: the last existing candidate is returned.
_resolve_avatar_path_last(preferences, files) ==
    LET existing == {i \in 1..Len(preferences) : preferences[i] \in files}
        available == GlobPng(files)
    IN  IF existing # {}
        THEN [raised |-> NoError,
              path |-> <<preferences[CHOOSE i \in existing :
                                         \A j \in existing : j <= i]>>]
        ELSE IF available # {}
        THEN [raised |-> NoError, path |-> <<FirstSorted(available)>>]
        ELSE [raised |-> <<"FileNotFoundError", "avatar">>, path |-> None]

\* _resolve_avatar_path: [raised, path], files being those AVATAR_DIR holds.
_resolve_avatar_path(preferences, files) ==
    LET existing == {i \in 1..Len(preferences) : preferences[i] \in files}
        available == GlobPng(files)
    IN  IF existing # {}
        THEN [raised |-> NoError,
              path |-> <<preferences[CHOOSE i \in existing :
                                         \A j \in existing : i <= j]>>]
        ELSE IF available # {}
        THEN [raised |-> NoError, path |-> <<FirstSorted(available)>>]
        ELSE [raised |-> <<"FileNotFoundError", "avatar">>, path |-> None]

\* Lines 80-82: the position of the first key the lower-cased label contains,
\* 0 when it contains none.
_section_key(section_name) ==
    LET found == {k \in 1..Len(PriorityKeys) :
                     Contains(Lower(section_name), PriorityKeys[k])}
    IN  IF found = {} THEN 0
        ELSE CHOOSE k \in found : \A l \in found : k <= l

\* _select_avatar_asset: [preferred, table, raised, path].  With a key,
\* preferred is the table's own list and += extends that list in place
\* (line 91), so table is the table the call leaves behind.
_select_avatar_asset(section_name, section_index, table, files) ==
    LET section_key == _section_key(section_name)
        preferred ==
            (IF section_key # 0
             THEN table[section_key]
             ELSE <<CASUAL_AVATAR_SEQUENCE[
                        (section_index % Len(CASUAL_AVATAR_SEQUENCE)) + 1]>>)
            \o CASUAL_AVATAR_SEQUENCE
        resolved == _resolve_avatar_path(preferred, files)
    IN  [preferred |-> preferred,
         table |-> IF section_key # 0
                   THEN [table EXCEPT ![section_key] = preferred]
                   ELSE table,
         raised |-> resolved.raised,
         path |-> resolved.path]

SelectAvatarAsset ==
    /\ pc = "select"
    /\ Len(calls) < MaxCalls
    /\ \E section_name \in SectionNames, section_index \in 0..MaxIndex :
        LET r == _select_avatar_asset(section_name, section_index,
                                      avatar_priority, avatar_dir)
        IN  /\ fn_args' = [section_name |-> section_name,
                           section_index |-> section_index,
                           table |-> avatar_priority]
            /\ fn_result' = [preferred |-> r.preferred, raised |-> r.raised,
                             path |-> r.path]
            /\ avatar_priority' = r.table
    /\ calls' = Append(calls, <<"_select_avatar_asset", Len(calls)>>)
    /\ UNCHANGED <<args, env, history, pc, raised, base_resolution, clip_pairs,
                   short_video_clip, final_clip, bg_music_base, bg_music,
                   composite_audio, thrown, close_errors, final_duration,
                   background, final_audio, avatar_in, frame_in, avatar_out,
                   avatar_dir>>

\* ------------------------------------------------------------- output path
\* The characters of a title: a lower-case letter, a capital, a digit, a
\* blank, a tab, a hyphen and a punctuation mark.
TitleChars == {"a", "B", "1", " ", "TAB", "-", "!"}

Whitespace == {" ", "TAB"}

\* str.isalnum() on one character.
IsAlnum(c) == c \in {"a", "B", "1", "v", "i", "d", "e", "o"}

RECURSIVE LStrip(_)
LStrip(text) ==
    IF text # <<>> /\ Head(text) \in Whitespace THEN LStrip(Tail(text)) ELSE text

RECURSIVE RStrip(_)
RStrip(text) ==
    IF text # <<>> /\ text[Len(text)] \in Whitespace
    THEN RStrip(SubSeq(text, 1, Len(text) - 1))
    ELSE text

\* str.split("-"): the pieces between hyphens, empty ones included.
RECURSIVE SplitHyphen(_, _, _)
SplitHyphen(text, piece, pieces) ==
    IF text = <<>> THEN Append(pieces, piece)
    ELSE IF Head(text) = "-"
    THEN SplitHyphen(Tail(text), <<>>, Append(pieces, piece))
    ELSE SplitHyphen(Tail(text), Append(piece, Head(text)), pieces)

\* "-".join(pieces).
RECURSIVE JoinHyphen(_)
JoinHyphen(pieces) ==
    IF pieces = <<>> THEN <<>>
    ELSE IF Len(pieces) = 1 THEN pieces[1]
    ELSE pieces[1] \o <<"-">> \o JoinHyphen(Tail(pieces))

NonEmptyPiece(piece) == piece # <<>>

KeptChar(c) == IsAlnum(c) \/ c = "-"

\* Mutant of _slugify: the pieces are joined again without dropping the empty
\* ones.
_slugify_uncollapsed(value) ==
    LET cleaned == [i \in 1..Len(RStrip(LStrip(value))) |->
                       IF RStrip(LStrip(value))[i] = " " THEN "-"
                       ELSE RStrip(LStrip(value))[i]]
        sanitized == SelectSeq(cleaned, KeptChar)
        collapsed == JoinHyphen(SplitHyphen(sanitized, <<>>, <<>>))
    IN  IF collapsed # <<>> THEN collapsed ELSE <<"v", "i", "d", "e", "o">>

\* _slugify, lines 45-48.
_slugify(value) ==
    LET stripped == RStrip(LStrip(value))
        cleaned == [i \in 1..Len(stripped) |->
                       IF stripped[i] = " " THEN "-" ELSE stripped[i]]
        sanitized == SelectSeq(cleaned, KeptChar)
        collapsed == JoinHyphen(SelectSeq(SplitHyphen(sanitized, <<>>, <<>>),
                                          NonEmptyPiece))
    IN  IF collapsed # <<>> THEN collapsed ELSE <<"v", "i", "d", "e", "o">>

\* Lines 195-201 and 270-271: [raised, output_path], the path by its parts
\* channel / <safe_title>-<video_id> / final_video.mp4.
_output_path(title, id) ==
    IF id = ""
    THEN [raised |-> <<"ValueError", "video_id">>, output_path |-> None]
    ELSE [raised |-> NoError,
          output_path |-> <<<<"channel">>, _slugify(title) \o <<"-", id>>,
                            <<"final_video.mp4">>>>]

Titles == UNION {[1..n -> TitleChars] : n \in 0..MaxTitle}

PrepareOutputDir ==
    /\ pc = "prepare"
    /\ fn_result' = _output_path(fn_args.video_title, fn_args.video_id)
    /\ pc' = "prepared"
    /\ UNCHANGED <<args, env, history, render_log, raised, base_resolution,
                   clip_pairs, short_video_clip, final_clip, bg_music_base,
                   bg_music, composite_audio, avatar_in, frame_in, avatar_out,
                   avatar_priority, avatar_dir, fn_args>>

\* ------------------------------------------------------------------ Init
DeclaredPaths(a, i, s) == Range(a) \cup Range(i) \cup Range(s)

Init ==
    /\ audio_paths \in Prefixes(AudioPool)
    /\ image_paths \in Prefixes(ImagePool)
    /\ short_video_path \in {None, <<ShortPath>>}
    /\ video_id \in {"", "vid"}
    /\ resolution \in Resolutions
    /\ transition_duration_x2 \in TransitionDurations
    /\ short_video_index \in ShortVideoIndexes(short_video_path)
    /\ missing \in SUBSET DeclaredPaths(audio_paths, image_paths, short_video_path)
    /\ short_size = None
    /\ image_size = [i \in 1..MaxImages |-> None]
    /\ probe_failures = {}
    /\ pc = "validate"
    /\ raised = NoError
    /\ base_resolution = None
    /\ clip_pairs = <<>>
    /\ short_video_clip = None
    /\ final_clip = None
    /\ bg_music_base = None
    /\ bg_music = None
    /\ composite_audio = None
    /\ fs_queried = {}
    /\ output_dir_created = FALSE
    /\ opened = {}
    /\ closed = {}
    /\ consulted = <<>>
    /\ avatar_log = <<>>
    /\ failed_segment = None
    /\ thrown = NoError
    /\ close_errors = {}
    /\ calls = <<>>
    /\ final_duration = None
    /\ background = None
    /\ final_audio = None
    /\ avatar_in = None
    /\ frame_in = None
    /\ avatar_out = None
    /\ avatar_priority = AVATAR_PRIORITY
    /\ avatar_dir = {}
    /\ fn_args = None
    /\ fn_result = None

Next ==
    \/ Validate
    \/ Resolve
    \/ OpenShort
    \/ BuildSegment
    \/ Render

Spec == Init /\ [][Next]_vars

\* No call of compose_video: the state the pure specifications start from.
Idle ==
    /\ audio_paths = <<>>
    /\ image_paths = <<>>
    /\ short_video_path = None
    /\ video_id = ""
    /\ resolution = None
    /\ transition_duration_x2 = 0
    /\ short_video_index = 1
    /\ missing = {}
    /\ short_size = None
    /\ image_size = [i \in 1..MaxImages |-> None]
    /\ probe_failures = {}
    /\ raised = NoError
    /\ base_resolution = None
    /\ clip_pairs = <<>>
    /\ short_video_clip = None
    /\ final_clip = None
    /\ bg_music_base = None
    /\ bg_music = None
    /\ composite_audio = None
    /\ fs_queried = {}
    /\ output_dir_created = FALSE
    /\ opened = {}
    /\ closed = {}
    /\ consulted = <<>>
    /\ avatar_log = <<>>
    /\ failed_segment = None
    /\ thrown = NoError
    /\ close_errors = {}
    /\ calls = <<>>
    /\ final_duration = None
    /\ background = None
    /\ final_audio = None

InitAvatar ==
    /\ Idle
    /\ pc = "scale"
    /\ avatar_in \in AvatarSizes
    /\ frame_in \in BaseSizes
    /\ avatar_out = None
    /\ avatar_priority = AVATAR_PRIORITY
    /\ avatar_dir = {}
    /\ fn_args = None
    /\ fn_result = None

NextAvatar ==
    \/ ScaleAvatar

SpecAvatar == InitAvatar /\ [][NextAvatar]_vars

\* The module as imported, and any files in the avatar directory.
InitSelect ==
    /\ Idle
    /\ pc = "select"
    /\ avatar_in = None
    /\ frame_in = None
    /\ avatar_out = None
    /\ avatar_priority = AVATAR_PRIORITY
    /\ avatar_dir \in SUBSET Range(SortedAvatarFiles)
    /\ fn_args = None
    /\ fn_result = None

NextSelect ==
    \/ SelectAvatarAsset

SpecSelect == InitSelect /\ [][NextSelect]_vars

InitSlug ==
    /\ Idle
    /\ pc = "prepare"
    /\ avatar_in = None
    /\ frame_in = None
    /\ avatar_out = None
    /\ avatar_priority = AVATAR_PRIORITY
    /\ avatar_dir = {}
    /\ fn_args \in [video_title : Titles, video_id : {"", "vid"}]
    /\ fn_result = None

NextSlug ==
    \/ PrepareOutputDir

SpecSlug == InitSlug /\ [][NextSlug]_vars

InitPlace ==
    /\ Idle
    /\ pc = "place"
    /\ avatar_in \in AvatarSizes
    /\ frame_in \in PlaceSizes
    /\ avatar_out = None
    /\ avatar_priority = AVATAR_PRIORITY
    /\ avatar_dir = {}
    /\ fn_args \in [side : {"left", "right"}]
    /\ fn_result = None

NextPlace ==
    \/ PlaceAvatar

SpecPlace == InitPlace /\ [][NextPlace]_vars

\* ---------------------------------------------------------------- claims
SegmentIndexes == 1..Len(clip_pairs)

HandlesOf(j) == {<<"visual_clip", j>>, <<"audio_clip", j>>}

\* C1: every media handle opened during the render has been closed by the
\* time compose_video returns or raises, the audio clip of the segment
\* being built when the error is raised included.
C1_EveryHandleClosed == pc = "done" => opened \subseteq closed

\* C2: when building segment k fails, the visual clip and the audio clip of
\* every earlier segment j < k were opened and are closed when the error
\* reaches the caller.
C2_EarlierSegmentsClosed ==
    (pc = "done" /\ failed_segment # None) =>
        \A j \in 0..(failed_segment[1] - 1) :
            HandlesOf(j) \subseteq (opened \cap closed)

C2_Witness ==
    /\ pc = "done"
    /\ failed_segment = <<1>>
    /\ HandlesOf(0) \subseteq opened
    /\ <<"audio_clip", 1>> \in opened

\* C3: N >= 1 audio paths and M >= 1 image paths pair into exactly N
\* segments in audio order, segment i taking image i while images last and
\* the last image from then on; the segments built follow that pairing, a
\* completed loop has built N of them, and no image beyond position N is
\* used.
C3_Pairing ==
    (audio_paths # <<>> /\ image_paths # <<>>) =>
        LET N == Len(audio_paths)
            M == Len(image_paths)
            pairs == _pair_media(audio_paths, image_paths)
        IN  /\ Len(pairs) = N
            /\ \A i \in 1..N :
                pairs[i] = <<audio_paths[i], image_paths[IF i <= M THEN i ELSE M]>>
            /\ \A i \in SegmentIndexes :
                /\ clip_pairs[i].index = i - 1
                /\ clip_pairs[i].audio = audio_paths[i]
                /\ clip_pairs[i].image = image_paths[IF i <= M THEN i ELSE M]
                /\ clip_pairs[i].image \in {image_paths[k] : k \in 1..Min2(N, M)}
            /\ Len(clip_pairs) <= N
            /\ (pc = "done" /\ final_clip # None) => Len(clip_pairs) = N

C3_Witness ==
    /\ pc = "done"
    /\ raised = NoError
    /\ Len(audio_paths) = 2
    /\ Len(image_paths) = 1
    /\ Len(clip_pairs) = 2
    /\ clip_pairs[2].source = "image"
    /\ clip_pairs[2].image = image_paths[1]

\* C4 as stated: the visual clip of every segment built lasts as long as the
\* audio clip paired with it, also when the audio clip reports a zero or
\* undefined duration.
C4_VisualMatchesAudio ==
    \A i \in SegmentIndexes :
        clip_pairs[i].visual_duration = clip_pairs[i].audio_duration

\* C4 as amended: the visual clip lasts as long as the audio clip in every
\* static-image segment, and in the short-clip segment whenever the audio
\* clip reports a non-zero duration.
C4_VisualMatchesAudioAmended ==
    \A i \in SegmentIndexes :
        (clip_pairs[i].source = "image" \/ TruthyNum(clip_pairs[i].audio_duration))
            => clip_pairs[i].visual_duration = clip_pairs[i].audio_duration

C4_Witness ==
    \E i, j \in SegmentIndexes :
        /\ clip_pairs[i].source = "short"
        /\ TruthyNum(clip_pairs[i].audio_duration)
        /\ clip_pairs[j].source = "image"
        /\ ~TruthyNum(clip_pairs[j].audio_duration)

\* C5 as stated: for every segment with audio duration D and configured
\* transition duration T the effective transition is min(T, D / 2), in half
\* ticks min(2 T, D).
C5_EffectiveTransition ==
    \A i \in SegmentIndexes :
        clip_pairs[i].audio_duration # None =>
            clip_pairs[i].effective_transition_x2 =
                Min2(transition_duration_x2, clip_pairs[i].audio_duration[1])

\* C5 as amended: the effective transition is min(T, D / 2) for every
\* segment whose audio duration D is non-zero, and 0 for a zero or undefined
\* D; it never exceeds D / 2.
C5_EffectiveTransitionAmended ==
    \A i \in SegmentIndexes :
        LET D == clip_pairs[i].audio_duration
            effective_x2 == clip_pairs[i].effective_transition_x2
        IN  /\ TruthyNum(D) => effective_x2 = Min2(transition_duration_x2, D[1])
            /\ ~TruthyNum(D) => effective_x2 = 0
            /\ D # None => effective_x2 <= D[1]

C5_Witness ==
    \E i \in SegmentIndexes :
        /\ clip_pairs[i].audio_duration = <<1>>
        /\ transition_duration_x2 = 2
        /\ clip_pairs[i].effective_transition_x2 = 1
        /\ clip_pairs[i].fades

\* C6: with an empty audio path list compose_video raises the error for the
\* empty audio list and touches nothing first: no existence query, no media
\* handle, no avatar, no output directory.
C6_EmptyAudioTouchesNothing ==
    audio_paths = <<>> =>
        /\ fs_queried = {}
        /\ opened = {}
        /\ consulted = <<>>
        /\ avatar_log = <<>>
        /\ ~output_dir_created
        /\ pc \in {"validate", "done"}
        /\ pc = "done" => raised = <<"ValueError", "audio">>

C6_Witness ==
    /\ pc = "done"
    /\ audio_paths = <<>>
    /\ image_paths # <<>>
    /\ short_video_path # None
    /\ video_id # ""

\* C7: when a declared input path (audio, image or short clip) does not
\* exist, or the image list is empty, compose_video raises before the
\* resolver runs and before any media handle is opened.
C7_FailsBeforeAnyHandle ==
    (missing # {} \/ image_paths = <<>>) =>
        /\ opened = {}
        /\ consulted = <<>>
        /\ base_resolution = None
        /\ clip_pairs = <<>>
        /\ avatar_log = <<>>
        /\ short_video_clip = None
        /\ pc \in {"validate", "done"}
        /\ pc = "done" => raised # NoError

C7_Witness ==
    /\ pc = "done"
    /\ missing = {ShortPath}
    /\ audio_paths # <<>>
    /\ image_paths # <<>>
    /\ video_id # ""
    /\ raised = <<"FileNotFoundError", "short video">>

\* C8: the avatar side depends on the segment index alone, left for an even
\* index and right for an odd one, and the avatar is mirrored exactly when
\* the side is left, on the static-image path and on the overlay path.
C8_AvatarSideByParity ==
    \A i \in 1..Len(avatar_log) :
        LET e == avatar_log[i]
        IN  /\ e.index % 2 = 0 => e.side = "left"
            /\ e.index % 2 = 1 => e.side = "right"
            /\ e.mirrored <=> e.side = "left"

C8_Witness ==
    \E i, j \in 1..Len(avatar_log) :
        /\ avatar_log[i].path = "static"
        /\ avatar_log[i].side = "left"
        /\ avatar_log[i].mirrored
        /\ avatar_log[j].path = "overlay"
        /\ avatar_log[j].side = "right"
        /\ ~avatar_log[j].mirrored

ScaledProperFrame ==
    /\ pc = "scaled"
    /\ avatar_in[1] >= 1
    /\ avatar_in[2] >= 1
    /\ frame_in[1] # 0
    /\ frame_in[2] # 0

\* C9 as stated: for an avatar of at least 1 x 1 and a frame with no zero
\* dimension the scale factor is at most 1 and the image returned is at
\* most 28% of the frame's width wide and 80% of its height high.
C9_AvatarFits ==
    ScaledProperFrame =>
        /\ avatar_out.scale_factor[1] <= avatar_out.scale_factor[2]
        /\ 100 * avatar_out.size[1] <= 28 * frame_in[1]
        /\ 100 * avatar_out.size[2] <= 80 * frame_in[2]

\* C9 as amended: the scale factor is at most 1, the image returned is no
\* larger than the avatar, and each of its dimensions is within its share of
\* the frame (28% of the width, 80% of the height) or is the single pixel a
\* dimension truncated to zero is forced up to.
C9_AvatarFitsAmended ==
    ScaledProperFrame =>
        /\ avatar_out.scale_factor[1] <= avatar_out.scale_factor[2]
        /\ avatar_out.size[1] <= avatar_in[1]
        /\ avatar_out.size[2] <= avatar_in[2]
        /\ 100 * avatar_out.size[1] <= 28 * frame_in[1] \/ avatar_out.size[1] = 1
        /\ 100 * avatar_out.size[2] <= 80 * frame_in[2] \/ avatar_out.size[2] = 1

C9_Witness ==
    /\ ScaledProperFrame
    /\ avatar_out.size[1] > 1
    /\ avatar_out.size[2] > 1
    /\ avatar_out.size[1] < avatar_in[1]
    /\ avatar_out.scale_factor[1] < avatar_out.scale_factor[2]

ResolverErrors == {<<"OSError", "resolver VideoFileClip">>,
                   <<"OSError", "resolver Image.open">>}

\* _determine_base_resolution has returned a value.
ResolverReturned ==
    \/ pc \in {"open_short", "loop"}
    \/ pc = "done" /\ output_dir_created /\ raised \notin ResolverErrors

ImagesRead == {k \in 1..Len(image_paths) : image_size[k] # None}

\* C10: the resolver returns the explicit resolution when one is given;
\* else the short clip's size when a short clip is present and its
\* dimensions are non-zero; else the size of the first image with non-zero
\* dimensions; else none.  It opens no source of lower priority than the one
\* that gave the size.
C10_ResolutionPriority ==
    ResolverReturned =>
        IF resolution # None
        THEN base_resolution = resolution /\ consulted = <<>>
        ELSE IF short_video_path # None /\ short_size # None /\ ProperSize(short_size)
        THEN base_resolution = short_size /\ consulted = <<ShortPath>>
        ELSE LET proper == {k \in ImagesRead : ProperSize(image_size[k])}
                 first == CHOOSE k \in proper : \A l \in proper : k <= l
                 read == IF proper = {} THEN Len(image_paths) ELSE first
             IN  /\ short_video_path # None => short_size # None
                 /\ base_resolution = IF proper = {} THEN None
                                      ELSE image_size[first]
                 /\ ImagesRead = 1..read
                 /\ consulted = (IF short_video_path # None
                                 THEN <<ShortPath>> ELSE <<>>)
                                \o SubSeq(image_paths, 1, read)

C10_Witness ==
    /\ ResolverReturned
    /\ resolution = None
    /\ short_video_path # None
    /\ ~ProperSize(short_size)
    /\ Len(image_paths) = 2
    /\ ~ProperSize(image_size[1])
    /\ base_resolution = image_size[2]
    /\ base_resolution # None

\* C11 as stated: with a short clip and an insertion index k inside 0..N-1,
\* segment k is produced with the short clip lasting exactly as long as
\* audio k (for an audio k of non-zero duration) and every other segment is
\* a static image; building segment k fails only when a file cannot be
\* read.
C11_ShortClipSegment ==
    (short_video_clip # None /\ short_video_index \in 0..(Len(audio_paths) - 1)) =>
        /\ \A i \in SegmentIndexes :
            /\ clip_pairs[i].source = "short" <=> clip_pairs[i].index = short_video_index
            /\ (clip_pairs[i].source = "short"
                   /\ TruthyNum(clip_pairs[i].audio_duration)) =>
                   clip_pairs[i].visual_duration = clip_pairs[i].audio_duration
        /\ (pc = "done" /\ failed_segment = <<short_video_index>>) =>
               thrown[1] \in {"OSError", "FileNotFoundError"}
        /\ (pc = "done" /\ final_clip # None) =>
               \E i \in SegmentIndexes : clip_pairs[i].source = "short"

RECURSIVE NarrationTotal(_)
NarrationTotal(pairs) ==
    IF pairs = <<>> THEN 0
    ELSE (IF pairs[1].audio_duration = None THEN 0 ELSE pairs[1].audio_duration[1])
         + NarrationTotal(Tail(pairs))

\* C12: the background track, once looped, lasts at least as long as the
\* whole narration (the sum of the segments' audio durations), the copies
\* audio_loop strings together cover that length, and the track is looped
\* before its volume is scaled.
C12_BackgroundCoversNarration ==
    background # None =>
        /\ background.duration[1] >= NarrationTotal(clip_pairs)
        /\ background.loops * background.native[1] >= background.duration[1]
        /\ background.ops = <<"audio_loop", "volumex">>

C12_Witness ==
    /\ background # None
    /\ NarrationTotal(clip_pairs) = 3
    /\ background.native = <<1>>
    /\ background.loops > 1

NoCallTwice == \A i, j \in 1..Len(calls) : calls[i] = calls[j] => i = j

\* C13: the error a step of compose_video raises is the error the caller
\* gets, also when close() raises in the finally block; without an error the
\* call returns, whatever close() does; and no library call is made twice.
C13_ErrorReachesCaller ==
    /\ pc = "done" => raised = thrown
    /\ NoCallTwice

C13_Witness ==
    /\ pc = "done"
    /\ thrown = <<"OSError", "write_videofile">>
    /\ raised = thrown
    /\ <<"final_clip", 0>> \in close_errors
    /\ <<"audio_clip", 0>> \in close_errors

CandidatesOnDisk == {i \in 1..Len(fn_result.preferred) :
                        fn_result.preferred[i] \in avatar_dir}

\* C14: the path returned is the first candidate, in list order, that
\* exists; with no candidate on disk it is the first png of the avatar
\* directory in sorted order; and the call fails with the avatar-not-found
\* error exactly when the directory holds no png.
C14_FirstExistingCandidate ==
    fn_result # None =>
        /\ CandidatesOnDisk # {} =>
            /\ fn_result.raised = NoError
            /\ \E i \in CandidatesOnDisk :
                /\ fn_result.path = <<fn_result.preferred[i]>>
                /\ \A j \in 1..(i - 1) : fn_result.preferred[j] \notin avatar_dir
        /\ (CandidatesOnDisk = {} /\ GlobPng(avatar_dir) # {}) =>
            /\ fn_result.raised = NoError
            /\ fn_result.path[1] \in GlobPng(avatar_dir)
            /\ \A g \in GlobPng(avatar_dir) :
                   RankOf(fn_result.path[1]) <= RankOf(g)
        /\ fn_result.raised = <<"FileNotFoundError", "avatar">>
               <=> GlobPng(avatar_dir) = {}

C14_Witness ==
    /\ fn_result # None
    /\ fn_args.section_name = <<"o", "u", "t", "r", "o">>
    /\ <<"waving_1", "png">> \notin avatar_dir
    /\ <<"casual_2", "png">> \in avatar_dir
    /\ <<"casual_1", "png">> \in avatar_dir
    /\ fn_result.path = <<(<<"casual_2", "png">>)>>

\* C15 as stated: the candidate list is the priority list of the first key
\* the lower-cased label contains, or the single entry
\* CASUAL_AVATAR_SEQUENCE[index mod 3] when it contains none, followed by the
\* whole cyclic sequence.
C15_CandidateList ==
    fn_result # None =>
        LET key == _section_key(fn_args.section_name)
        IN  fn_result.preferred =
                (IF key # 0
                 THEN AVATAR_PRIORITY[key]
                 ELSE <<CASUAL_AVATAR_SEQUENCE[(fn_args.section_index % 3) + 1]>>)
                \o CASUAL_AVATAR_SEQUENCE

\* C16: the audio given to the final clip is the composite of the narration
\* and the background track when the concatenated clip has narration, and
\* the background track itself when it has none; the concatenated clip has
\* narration when a segment has audio.
C16_CompositeAudio ==
    final_audio # None =>
        /\ final_audio.narration <=> clip_pairs # <<>>
        /\ final_audio.narration =>
            /\ final_audio.sources = {"narration", "background"}
            /\ composite_audio = <<"composite_audio", 0>>
        /\ ~final_audio.narration =>
            /\ final_audio.sources = {"background"}
            /\ composite_audio = bg_music

C16_Witness ==
    /\ pc = "done"
    /\ raised = NoError
    /\ final_audio # None
    /\ final_audio.narration
    /\ Len(clip_pairs) = 2

\* C17: with a transition duration that is zero or negative no segment gets
\* a fade-in or a fade-out.
C17_NoFadeWhenDisabled ==
    transition_duration_x2 <= 0 =>
        \A i \in SegmentIndexes :
            /\ ~clip_pairs[i].fades
            /\ "fadein" \notin Range(clip_pairs[i].fx)
            /\ "fadeout" \notin Range(clip_pairs[i].fx)

C17_Witness ==
    \E i \in SegmentIndexes :
        /\ transition_duration_x2 < 0
        /\ TruthyNum(clip_pairs[i].audio_duration)
        /\ clip_pairs[i].effective_transition_x2 < 0
        /\ ~clip_pairs[i].fades

ResolverCalls == {i \in 1..Len(calls) : calls[i][1] = "_determine_base_resolution"}

\* C18: the resolver is called once, before anything of the segment loop,
\* and when the base resolution is not none every segment's visual, static
\* image or short clip, has that frame size.
C18_UniformResolution ==
    /\ Cardinality(ResolverCalls) <= 1
    /\ pc \in {"open_short", "loop"} \/ clip_pairs # <<>> => ResolverCalls = {1}
    /\ base_resolution # None =>
           \A i \in SegmentIndexes : clip_pairs[i].size = base_resolution

C18_Witness ==
    /\ base_resolution # None
    /\ \E i, j \in SegmentIndexes :
        /\ clip_pairs[i].source = "short"
        /\ "resize" \in Range(clip_pairs[i].fx)
        /\ clip_pairs[j].source = "image"
        /\ clip_pairs[i].size = base_resolution
        /\ clip_pairs[j].size = base_resolution

\* The zoom factors a caller may want.
ZoomFactors == 1..MaxZoom

\* C19 as stated: with a zoom factor above 1 every segment with a non-zero
\* duration has the zoom among the effects applied to its visual.
C19_KenBurnsZoom ==
    \A Z \in ZoomFactors :
        \A i \in SegmentIndexes :
            (Z > 1 /\ TruthyNum(clip_pairs[i].audio_duration)) =>
                "zoom" \in Range(clip_pairs[i].fx)

Slug == SubSeq(fn_result.output_path[2], 1, Len(fn_result.output_path[2]) - 2)

\* The shape of a slug: not empty, alphanumerics and hyphens only, no hyphen
\* first or last, no two hyphens in a row.
SlugShape(slug) ==
    /\ slug # <<>>
    /\ \A i \in 1..Len(slug) : IsAlnum(slug[i]) \/ slug[i] = "-"
    /\ slug[1] # "-"
    /\ slug[Len(slug)] # "-"
    /\ \A i \in 1..(Len(slug) - 1) : ~(slug[i] = "-" /\ slug[i + 1] = "-")

\* C20 as stated: the output path is channel/<slug>-<video_id>/final_video.mp4
\* and the slug holds lower-case alphanumerics only, separated by single
\* hyphens.
C20_OutputPath ==
    (pc = "prepared" /\ fn_args.video_id # "") =>
        /\ fn_result.output_path =
               <<<<"channel">>, Slug \o <<"-", fn_args.video_id>>,
                 <<"final_video.mp4">>>>
        /\ SlugShape(Slug)
        /\ \A i \in 1..Len(Slug) : Slug[i] # "B"

\* C20 as amended: the output path is
\* channel/<slug>-<video_id>/final_video.mp4, the slug holding the title's
\* alphanumerics in their order and in their own case, separated by single
\* hyphens, with no hyphen first or last, and being 'video' when the title
\* has no alphanumeric.
C20_OutputPathAmended ==
    (pc = "prepared" /\ fn_args.video_id # "") =>
        /\ fn_result.raised = NoError
        /\ fn_result.output_path =
               <<<<"channel">>, Slug \o <<"-", fn_args.video_id>>,
                 <<"final_video.mp4">>>>
        /\ SlugShape(Slug)
        /\ IF SelectSeq(fn_args.video_title, IsAlnum) = <<>>
           THEN Slug = <<"v", "i", "d", "e", "o">>
           ELSE SelectSeq(Slug, IsAlnum) = SelectSeq(fn_args.video_title, IsAlnum)

C20_Witness ==
    /\ pc = "prepared"
    /\ fn_args.video_title = <<" ", "B", " ", "a">>
    /\ fn_args.video_id = "vid"
    /\ Slug = <<"B", "-", "a">>

CallsOf(name) == {i \in 1..Len(calls) : calls[i][1] = name}

\* C21: segment i's audio is opened only after segment i-1 is complete, the
\* segments are kept in audio-path order, and write_videofile is called at
\* most once, as the last call, after all N segments are built, the clips
\* are concatenated and the audio is mixed.
C21_TimelineOrder ==
    /\ \A i \in 1..Len(calls) :
        (calls[i][1] = "AudioFileClip" /\ calls[i][2] >= 1) =>
            /\ \E j \in 1..(i - 1) : calls[j] = <<"_apply_transitions", calls[i][2] - 1>>
            /\ Len(clip_pairs) >= calls[i][2]
    /\ \A i \in SegmentIndexes :
        /\ clip_pairs[i].index = i - 1
        /\ clip_pairs[i].audio = audio_paths[i]
    /\ Cardinality(CallsOf("write_videofile")) <= 1
    /\ \A i \in CallsOf("write_videofile") :
        /\ i = Len(calls)
        /\ Len(clip_pairs) = Len(audio_paths)
        /\ final_audio # None
        /\ \E j \in 1..(i - 1) : calls[j][1] = "concatenate_videoclips"
        /\ \E j \in 1..(i - 1) : calls[j][1] = "audio_loop"

C21_Witness ==
    /\ pc = "done"
    /\ raised = NoError
    /\ Len(audio_paths) = 2
    /\ Len(clip_pairs) = 2
    /\ CallsOf("write_videofile") = {Len(calls)}

Placed == pc = "placed"

\* C22: the avatar is placed with a horizontal margin of int(4% of the frame
\* width), x being the margin on the left side and frame width - avatar
\* width - margin on the right side, and y is frame height - avatar height -
\* int(5% of the frame height) on both sides.
C22_AvatarPosition ==
    Placed =>
        LET W == frame_in[1]
            H == frame_in[2]
            w == fn_result.size[1]
            h == fn_result.size[2]
            x == fn_result.position[1]
            y == fn_result.position[2]
            margin == CHOOSE m \in 0..W : 100 * m <= 4 * W /\ 4 * W < 100 * (m + 1)
            bottom == CHOOSE m \in 0..H : 100 * m <= 5 * H /\ 5 * H < 100 * (m + 1)
        IN  /\ fn_args.side = "left" => x = margin
            /\ fn_args.side = "right" => x = W - w - margin
            /\ y = H - h - bottom

C22_Witness ==
    /\ Placed
    /\ fn_args.side = "right"
    /\ frame_in = <<25, 20>>
    /\ fn_result.size = <<5, 6>>
    /\ fn_result.position = <<19, 13>>

\* C23 as stated: an asset that cannot be opened never makes the resolver
\* fail: an unreadable short clip is skipped for the images and an
\* unreadable image for the next image.
C23_UnreadableSkipped ==
    /\ raised \notin ResolverErrors
    /\ (probe_failures # {} /\ pc # "resolve") => ResolverReturned

\* Every file the resolver passed over held a zero dimension.
PassedOver(k) ==
    (k < Len(consulted) \/ base_resolution = None) =>
        IF consulted[k] = ShortPath
        THEN ~ProperSize(short_size)
        ELSE ~ProperSize(image_size[consulted[k][2]])

\* C23 as amended: the resolver passes over a short clip or an image exactly
\* when it opens and reports a zero dimension; a short clip or an image that
\* cannot be opened makes the resolver fail with that error, and
\* compose_video with it, before anything is opened for rendering.
C23_UnreadableRaises ==
    /\ \A k \in 1..Len(consulted) : PassedOver(k)
    /\ probe_failures # {} <=> raised \in ResolverErrors
    /\ raised \in ResolverErrors =>
        /\ pc = "done"
        /\ base_resolution = None
        /\ clip_pairs = <<>>
        /\ short_video_clip = None
        /\ \A h \in opened : h[1] = "probe"

C23_Witness ==
    /\ pc = "done"
    /\ raised = <<"OSError", "resolver Image.open">>
    /\ consulted = <<ShortPath, ImagePool[1]>>
    /\ probe_failures = {ImagePool[2]}

\* The handles the finally block is to close, from the locals as they are.
ToClose ==
    UNION {HandlesOf(clip_pairs[i].index) : i \in SegmentIndexes}
    \cup ({final_clip, composite_audio, bg_music, bg_music_base,
           short_video_clip} \ {None})

\* C24: when the try block has been entered and compose_video is over,
\* close() has been called on every segment clip and segment audio of
\* clip_pairs, on the final clip, the composite audio, the background clips
\* and the short clip, whether or not a close() raised.
C24_CleanupCompletes ==
    (pc = "done" /\ ResolverReturned) => ToClose \subseteq closed

C24_Witness ==
    /\ pc = "done"
    /\ ResolverReturned
    /\ close_errors # {}
    /\ Len(clip_pairs) = 2
    /\ final_clip # None
    /\ composite_audio # None
    /\ short_video_clip # None
    /\ ToClose \subseteq closed
    /\ close_errors \subseteq closed

\* C25 as stated: after any calls of _select_avatar_asset the AVATAR_PRIORITY
\* table is as the module defines it, and a call returns what the same call
\* returns on the table as defined.
C25_NoMemory ==
    /\ avatar_priority = AVATAR_PRIORITY
    /\ fn_result # None =>
        fn_result.path = _select_avatar_asset(fn_args.section_name,
                                              fn_args.section_index,
                                              AVATAR_PRIORITY, avatar_dir).path

InvalidInput ==
    \/ audio_paths = <<>>
    \/ image_paths = <<>>
    \/ missing # {}
    \/ video_id = ""

\* C26: when the input does not pass validation (an empty or missing audio
\* or image path, a missing short clip, an empty video_id) compose_video
\* raises with no side effect: no output directory, no media handle, no
\* library call and so no write_videofile.
C26_ValidationNoSideEffect ==
    InvalidInput =>
        /\ ~output_dir_created
        /\ opened = {}
        /\ calls = <<>>
        /\ pc \in {"validate", "done"}
        /\ pc = "done" => raised[1] \in {"ValueError", "FileNotFoundError"}

C26_Witness ==
    /\ pc = "done"
    /\ video_id = ""
    /\ missing = {}
    /\ Len(audio_paths) = 2
    /\ Len(image_paths) = 2
    /\ short_video_path # None
    /\ raised = <<"ValueError", "video_id">>

\* C27: for a frame of at least 1 x 1 and any avatar size, the avatar as
\* scaled and positioned lies inside the frame on either side.
C27_AvatarInsideFrame ==
    (Placed /\ frame_in[1] >= 1 /\ frame_in[2] >= 1) =>
        /\ 0 <= fn_result.position[1]
        /\ fn_result.position[1] + fn_result.size[1] <= frame_in[1]
        /\ 0 <= fn_result.position[2]
        /\ fn_result.position[2] + fn_result.size[2] <= frame_in[2]

C27_Witness ==
    /\ Placed
    /\ fn_args.side = "right"
    /\ avatar_in = <<6, 6>>
    /\ frame_in = <<26, 5>>
    /\ fn_result.size = <<4, 4>>
    /\ fn_result.position = <<21, 1>>

ShortIndexInside == short_video_index \in 0..(Len(audio_paths) - 1)

ImageByPosition(i) == image_paths[Min2(i, Len(image_paths))]

\* C28: with a short clip and an index outside 0..N-1 no segment uses the
\* clip and a completed loop has N static-image segments paired by position,
\* while the clip is opened once and is closed at the end; with an index
\* inside the range only that segment uses the clip and every other segment
\* has the image of its own position.
C28_ShortIndexOutOfRange ==
    short_video_clip # None =>
        /\ Cardinality(CallsOf("VideoFileClip")) = 1
        /\ short_video_clip \in opened
        /\ pc = "done" => short_video_clip \in closed
        /\ \A i \in SegmentIndexes :
            /\ clip_pairs[i].source = "short" =>
                   (ShortIndexInside /\ clip_pairs[i].index = short_video_index)
            /\ clip_pairs[i].source = "image" =>
                   clip_pairs[i].image = ImageByPosition(i)
        /\ (~ShortIndexInside /\ final_clip # None) =>
               /\ Len(clip_pairs) = Len(audio_paths)
               /\ \A i \in SegmentIndexes : clip_pairs[i].source = "image"

C28_Witness ==
    /\ pc = "done"
    /\ raised = NoError
    /\ short_video_clip # None
    /\ short_video_index = 0 - 1
    /\ Len(clip_pairs) = 2
    /\ Len(image_paths) = 2
    /\ clip_pairs[1].source = "image"
    /\ clip_pairs[2].source = "image"
    /\ short_video_clip \in closed
====
